---- MODULE Spec2Model ----
(***************************************************************************)
(* Model of the YouTube downloader: the Streamlit front-end                *)
(* (streamlit_app.py: Option Builder, four-step Fallback Downloader,       *)
(* single / audio / batch handlers) and the command-line front-end         *)
(* (youtube_downloader.py: make_ydl_opts, collect_urls, download, main).   *)
(*                                                                         *)
(* Python dictionaries are functions from key strings to values; a key is  *)
(* present iff it is in the DOMAIN.  File names, format selectors and      *)
(* error messages are sequences (of characters / selector tokens), so that *)
(* endswith, splitext, "'+' in format" and slicing are computed.           *)
(***************************************************************************)
EXTENDS Integers, Sequences, FiniteSets, TLC

\* ------------------------------------------------------------------ bounds
\* Requests (button presses) per web session.
MaxRequests == 2
\* Number of entries the extractor may leave in one directory.
MaxEntries == 2
\* Length of the long error message (longer than the display prefix).
LongMsgLen == 101

\* ------------------------------------------------------- dictionary helpers
Min(a, b) == IF a < b THEN a ELSE b

\* key in d
Has(d, k) == k \in DOMAIN d

\* d.update(e) / {**d, **e}: the keys of e win
Update(d, e) == e @@ d

\* d[k] = v
Put(d, k, v) == (k :> v) @@ d

\* Python truthiness of a str / list / Optional value; None is modelled as
\* the empty sequence, which is falsy exactly like None, "" and [].
None == << >>
Truthy(s) == Len(s) > 0

\* x in seq
Contains(seq, x) == \E i \in 1..Len(seq) : seq[i] = x

\* ------------------------------------------------------------ Option Builder
\* get_output_directory(): the shared Downloads directory
get_output_directory == "Downloads"

OutputTemplate == "%(title)s [%(id)s].%(ext)s"

\* os.path.join(dir, template)
PathJoin(dir, name) == [dir |-> dir, name |-> name]

user_agents ==
    << "Chrome120/Windows", "Chrome120/Mac", "Chrome120/Linux", "Firefox120/Windows" >>

\* Format selectors are sequences of selector tokens; "+" is the combinator
\* and "/" separates the alternatives.
FormatAudio ==
    << "bestaudio[ext=m4a]", "/", "bestaudio[ext=mp3]", "/", "bestaudio", "/", "best" >>
FormatCapped(h) ==
    << "bestvideo[height<=" \o h \o "]", "+", "bestaudio", "/",
       "best[height<=" \o h \o "]", "/", "best" >>
FormatBest ==
    << "bestvideo[height<=1080]", "+", "bestaudio", "/", "best[height<=1080]", "/",
       "bestvideo", "+", "bestaudio", "/", "best" >>

http_headers ==
    [ k \in {"Accept", "Accept-Language", "Accept-Encoding", "DNT", "Connection",
             "Upgrade-Insecure-Requests"} |->
        CASE k = "Accept" -> "text/html,application/xhtml+xml,application/xml;q=0.9,*/*;q=0.8"
          [] k = "Accept-Language" -> "en-us,en;q=0.5"
          [] k = "Accept-Encoding" -> "gzip, deflate"
          [] k = "DNT" -> "1"
          [] k = "Connection" -> "keep-alive"
          [] k = "Upgrade-Insecure-Requests" -> "1" ]

BaseOptions(selected_ua) ==
    ("outtmpl" :> PathJoin(get_output_directory, OutputTemplate))
    @@ ("ignoreerrors" :> TRUE)
    @@ ("no_warnings" :> FALSE)
    @@ ("extractflat" :> FALSE)
    @@ ("user_agent" :> selected_ua)
    @@ ("referer" :> "https://www.youtube.com/")
    @@ ("sleep_interval" :> 2)
    @@ ("max_sleep_interval" :> 8)
    @@ ("retries" :> 5)
    @@ ("fragment_retries" :> 5)
    @@ ("skip_unavailable_fragments" :> TRUE)
    @@ ("abort_on_unavailable_fragment" :> FALSE)
    @@ ("extractor_retries" :> 5)
    @@ ("file_access_retries" :> 5)
    @@ ("http_chunk_size" :> 10485760)
    @@ ("http_headers" :> http_headers)
    @@ ("embed_subs" :> TRUE)
    @@ ("writesubtitles" :> FALSE)
    @@ ("writeautomaticsub" :> FALSE)

AudioPostprocessor ==
    [key |-> "FFmpegExtractAudio", preferredcodec |-> "mp3", preferredquality |-> "192"]

QualityFormat(quality, custom_format) ==
    IF Truthy(custom_format) THEN custom_format
    ELSE IF quality = "4K" THEN FormatCapped("2160")
    ELSE IF quality = "1440p" THEN FormatCapped("1440")
    ELSE IF quality = "1080p" THEN FormatCapped("1080")
    ELSE IF quality = "720p" THEN FormatCapped("720")
    ELSE IF quality = "480p" THEN FormatCapped("480")
    ELSE FormatBest

\* Variant whose format selector follows the selected user agent
create_download_options_AgentFormat(quality, audio_only, subtitle_langs, custom_format, selected_ua) ==
    LET base == BaseOptions(selected_ua)
        withFormat ==
            IF audio_only
            THEN Update(base, ("format" :> FormatAudio)
                              @@ ("postprocessors" :> << AudioPostprocessor >>))
            ELSE Put(base, "format",
                     IF selected_ua = user_agents[1]
                     THEN QualityFormat(quality, custom_format)
                     ELSE FormatBest)
    IN  IF Truthy(subtitle_langs)
        THEN Update(withFormat, ("writesubtitles" :> TRUE)
                                @@ ("subtitleslangs" :> subtitle_langs)
                                @@ ("writeautomaticsub" :> TRUE))
        ELSE withFormat

\* create_download_options(quality, audio_only, subtitle_langs, custom_format);
\* selected_ua is the outcome of random.choice(user_agents).
create_download_options(quality, audio_only, subtitle_langs, custom_format, selected_ua) ==
    LET base == BaseOptions(selected_ua)
        withFormat ==
            IF audio_only
            THEN Update(base, ("format" :> FormatAudio)
                              @@ ("postprocessors" :> << AudioPostprocessor >>))
            ELSE Put(base, "format", QualityFormat(quality, custom_format))
    IN  IF Truthy(subtitle_langs)
        THEN Update(withFormat, ("writesubtitles" :> TRUE)
                                @@ ("subtitleslangs" :> subtitle_langs)
                                @@ ("writeautomaticsub" :> TRUE))
        ELSE withFormat


\* --------------------------------------------------- external collaborators
\* URLs are sequences of tokens (a blank is the token " ").
UrlA == << "urlA" >>
UrlB == << "urlB" >>
Urls == {UrlA, UrlB}

\* Error messages (str(e)) are sequences of characters.
ShortMsg == << "E", "1" >>
LongMsg == [i \in 1..LongMsgLen |-> "x"]
Errors == {ShortMsg, LongMsg}
OSErrorMsg == << "I", "O" >>
KeyErrorMsg == << "'", "o", "u", "t", "t", "m", "p", "l", "'" >>

\* Names of directory entries are sequences of characters.
NameVideoMp4 == << "v", ".", "m", "p", "4" >>
NameClipWebm == << "c", ".", "w", "e", "b", "m" >>
NameVideoPart == << "v", ".", "p", "a", "r", "t" >>
NameSubdir == << "s", "u", "b" >>

\* What the extractor can leave in the directory of its output template:
\* media files, a partial download, and a subdirectory (whose own content,
\* e.g. a nested media file, is not a top-level entry).
EntryUniverse ==
    { [name |-> NameVideoMp4, kind |-> "file", data |-> << 1, 2, 3 >>],
      [name |-> NameClipWebm, kind |-> "file", data |-> << 4 >>],
      [name |-> NameVideoPart, kind |-> "file", data |-> << 5, 6 >>],
      [name |-> NameSubdir, kind |-> "dir", data |-> << >>] }

WrittenSets == {S \in SUBSET EntryUniverse : Cardinality(S) <= MaxEntries}

\* What download_video's extractor run is taken to leave in Downloads
LegacyWrittenSets == {S \in WrittenSets : S \subseteq {e \in EntryUniverse : e.name = NameVideoMp4}}

\* Metadata returned by extract_info: a dict with or without a title.
Infos == { ("id" :> "x"), ("id" :> "x") @@ ("title" :> "T1") }

\* Names tempfile may pick for a new scratch directory.
TempNames == {"tmp_a", "tmp_b"}

\* What happens inside the extraction primitive.
ExtractionKinds == {"ok", "extraction_failure", "hard_error"}

\* yt-dlp with 'ignoreerrors': True reports a download error and carries on
\* (extract_info returns None, download returns a non-zero code); without it
\* the error is raised.  Other errors are raised whatever the options.
ExtractorRaises(opts, kind) ==
    \/ kind = "hard_error"
    \/ /\ kind = "extraction_failure"
       /\ ~(Has(opts, "ignoreerrors") /\ opts["ignoreerrors"])

\* ------------------------------------------------------- _attempt_download
EndsWith(s, suffix) ==
    /\ Len(s) >= Len(suffix)
    /\ SubSeq(s, Len(s) - Len(suffix) + 1, Len(s)) = suffix

MediaExtensions ==
    { << ".", "m", "p", "4" >>, << ".", "m", "k", "v" >>, << ".", "w", "e", "b", "m" >>,
      << ".", "m", "p", "3" >>, << ".", "m", "4", "a" >>, << ".", "w", "a", "v" >>,
      << ".", "f", "l", "a", "c" >> }

IsMedia_NoWebm(name) ==
    \E x \in MediaExtensions \ { << ".", "w", "e", "b", "m" >> } : EndsWith(name, x)

\* file.endswith(('.mp4', '.mkv', '.webm', '.mp3', '.m4a', '.wav', '.flac'))
IsMedia(name) == \E x \in MediaExtensions : EndsWith(name, x)

\* os.path.splitext(name)[1]: from the last dot on, unless only dots precede it
splitext_ext(name) ==
    LET dots == {i \in 1..Len(name) : name[i] = "."}
    IN  IF dots = {} THEN << >>
        ELSE LET dotIndex == CHOOSE i \in dots : \A j \in dots : j <= i
             IN  IF \E j \in 1..(dotIndex - 1) : name[j] # "."
                 THEN SubSeq(name, dotIndex, Len(name))
                 ELSE << >>

\* info.get('title', 'Unknown') if info else 'Unknown'
TitleOf(info) ==
    IF DOMAIN info # {}
    THEN IF Has(info, "title") THEN info["title"] ELSE "Unknown"
    ELSE "Unknown"

DownloadedFile(entry, info) ==
    [ name  |-> entry.name,
      data  |-> entry.data,
      size  |-> Len(entry.data),
      title |-> TitleOf(info),
      ext   |-> splitext_ext(entry.name) ]

\* The loop over os.listdir(temp_dir), in the order the listing returns.
RECURSIVE ScanEntries(_, _)
ScanEntries(listing, info) ==
    IF listing = << >> THEN << >>
    ELSE LET entry == Head(listing)
         IN  (IF IsMedia(entry.name) THEN << DownloadedFile(entry, info) >> ELSE << >>)
             \o ScanEntries(Tail(listing), info)

\* open(file_path, 'rb') of a directory raises
ReadRaises(listing) ==
    \E i \in 1..Len(listing) : IsMedia(listing[i].name) /\ listing[i].kind = "dir"

\* The orders in which os.listdir may return the entries of a directory.
Listings(entries) ==
    LET n == Cardinality(entries)
    IN  {s \in [1..n -> entries] : \A i, j \in 1..n : i # j => s[i] # s[j]}

\* tempfile.mkdtemp: a new directory under a name that does not exist yet.
\* The name is random; names are interchangeable, so one is picked.
mkdtemp(files) == CHOOSE d \in TempNames \ DOMAIN files : TRUE

TempOptions_KeepOuttmpl(opts, dir) == opts

\* temp_options = options.copy(); temp_options['outtmpl'] = <temp_dir>/<template>
TempOptions(opts, dir) == Put(opts, "outtmpl", PathJoin(dir, OutputTemplate))

\* ------------------------------------------------ download_video_to_memory
DisplayLimit == 100

\* str(e)[:100]
Truncate(msg) == SubSeq(msg, 1, Min(Len(msg), DisplayLimit))

FormatSimpleCapped == << "best[height<=720]" >>
FormatSimpleBest == << "best" >>
FormatMobile == << "best[height<=480]", "/", "best" >>
FormatAudioFallback == << "bestaudio", "/", "best" >>

\* Variant that substitutes 'best' whatever the primary format is
SimplifiedOptions_AlwaysBest(opts) ==
    IF Has(opts, "format") THEN Put(opts, "format", FormatSimpleBest) ELSE opts

\* Strategy 2: a copy of the options with a simpler format
SimplifiedOptions(opts) ==
    IF Has(opts, "format")
    THEN IF Contains(opts["format"], "+")
         THEN Put(opts, "format", FormatSimpleCapped)
         ELSE Put(opts, "format", FormatSimpleBest)
    ELSE opts

\* Variant that carries the postprocessors of the primary options over
MinimalOptions_KeepsPostprocessors(opts) ==
    [k \in {"outtmpl", "postprocessors"} \cap DOMAIN opts |-> opts[k]]
    @@ ("format" :> FormatMobile)
    @@ ("user_agent" :> "iPhone")
    @@ ("referer" :> "https://m.youtube.com/")
    @@ ("retries" :> 3)
    @@ ("sleep_interval" :> 5)

\* Strategy 3: mobile user agent and minimal options
MinimalOptions(opts) ==
    ("outtmpl" :> opts["outtmpl"])
    @@ ("format" :> FormatMobile)
    @@ ("user_agent" :> "iPhone")
    @@ ("referer" :> "https://m.youtube.com/")
    @@ ("retries" :> 3)
    @@ ("sleep_interval" :> 5)

\* Strategy 4: audio only
AudioOptions(opts) ==
    ("outtmpl" :> opts["outtmpl"])
    @@ ("format" :> FormatAudioFallback)
    @@ ("user_agent" :> "Googlebot")
    @@ ("sleep_interval" :> 3)

\* The options a strategy hands to _attempt_download
StrategyOptions(k, opts) ==
    CASE k = 1 -> opts
      [] k = 2 -> SimplifiedOptions(opts)
      [] k = 3 -> MinimalOptions(opts)
      [] k = 4 -> AudioOptions(opts)

\* Variant in which strategy 2 edits the caller's dict instead of a copy
CallerOptionsAfter_NoCopy(k, opts) == IF k = 2 THEN SimplifiedOptions(opts) ELSE opts

\* The caller's dict once strategy k has built its options: strategy 2 works
\* on options.copy(), strategies 3 and 4 build new dicts
CallerOptionsAfter(k, opts) == opts

\* Building the options of strategies 3 and 4 reads options['outtmpl']
StrategyKeyError(k, opts) == k \in {3, 4} /\ ~Has(opts, "outtmpl")

\* Strategy 1 starts silently; strategies 2, 3 and 4 call st.info first
Announces_From3(k) == k >= 3
Announces(k) == k >= 2

\* Variant in which a long error message makes the ladder skip a strategy
NextStrategy_ByError(k, msg) == IF Len(msg) > DisplayLimit /\ k < 3 THEN k + 2 ELSE k + 1

\* After the except clause of strategy k control falls through to the next
\* strategy block; the error (msg) is only displayed
NextStrategy(k, msg) == k + 1

\* The except clause of strategy 4 returns the failure; the others fall through
IsLastStrategy_Three(k) == k >= 3
IsLastStrategy(k) == k = 4

\* st.info(...) at the start of strategies 2, 3 and 4
InfoLabel(k) ==
    CASE k = 2 -> "Trying alternative download method..."
      [] k = 3 -> "Trying mobile compatibility mode..."
      [] k = 4 -> "Trying audio-only fallback..."

\* st.warning(...) in the except clauses of strategies 1, 2 and 3
WarningLabel(k) ==
    CASE k = 1 -> "Primary download method failed: "
      [] k = 2 -> "Alternative method failed: "
      [] k = 3 -> "Mobile mode failed: "

AllFailedPrefix == "All download strategies failed. Last error: "

\* An element written to the page
Note(kind, label, detail) == [kind |-> kind, label |-> label, detail |-> detail]


\* ------------------------------------------------------------ sidebar state
Qualities == {"Best Available", "4K", "1440p", "1080p", "720p", "480p", "Custom Format"}
AudioFormats == {"MP3", "M4A", "FLAC", "WAV"}

\* Texts typed into the "Format String" input
CustomInputs == { << >>, << "18" >>, << "137", "+", "251" >> }

\* Sidebar settings tried for a single-video download; one for each branch
\* of the Option Builder and of the metadata options of the handler.
Setting(q, cf, subs, meta, thumb, wthumb) ==
    [ quality |-> q, custom_format_input |-> cf, subtitle_langs |-> subs,
      embed_metadata |-> meta, embed_thumbnail |-> thumb, write_thumbnail |-> wthumb ]

SidebarSettings ==
    { Setting("Best Available", None, None, FALSE, FALSE, FALSE),
      Setting("1080p", None, << "en" >>, TRUE, FALSE, FALSE),
      Setting("Custom Format", << "18" >>, None, FALSE, TRUE, TRUE) }

\* Outcomes of random.choice(user_agents) that are explored
SelectedAgents == {user_agents[1], user_agents[4]}

\* The options the single-video handler passes to download_video_to_memory
SingleVideoOptions(s, selected_ua) ==
    LET use_custom_format == (s.quality = "Custom Format")
        built == create_download_options(
                     s.quality, FALSE, s.subtitle_langs,
                     IF use_custom_format THEN s.custom_format_input ELSE None,
                     selected_ua)
        withList == IF (s.embed_metadata \/ s.embed_thumbnail) /\ ~Has(built, "postprocessors")
                    THEN Put(built, "postprocessors", << >>)
                    ELSE built
        withMeta == IF s.embed_metadata
                    THEN Put(withList, "postprocessors",
                             Append(withList["postprocessors"],
                                    [key |-> "FFmpegMetadata"]))
                    ELSE withList
        withThumb == IF s.embed_thumbnail
                     THEN Put(withMeta, "postprocessors",
                              Append(withMeta["postprocessors"],
                                     [key |-> "EmbedThumbnail"]))
                     ELSE withMeta
    IN  IF s.write_thumbnail THEN Put(withThumb, "writethumbnail", TRUE) ELSE withThumb

\* The options of the "Audio Only" handler
AudioOnlyOptions(selected_ua) ==
    create_download_options("best", TRUE, None, None, selected_ua)

\* -------------------------------------------------------------------- state
VARIABLES
    pc,               \* position of the running handler
    handler,          \* download mode of the running handler
    audio_format,     \* value of the "Audio Format" selectbox ("" when not shown)
    url,              \* URL of the request
    options,          \* primary configuration of the request
    strategy,         \* strategy (ladder step) in progress, 1..4
    step_options,     \* options the strategy hands to _attempt_download
    temp_dir,         \* scratch directory of the running attempt ("" when none)
    temp_options,     \* options handed to the extractor
    info,             \* metadata returned by extract_info
    pending,          \* what _attempt_download is about to return or raise
    result,           \* (success, downloaded_files, error) of the request
    fs,               \* file system: existing directory |-> its top-level entries
    calls,            \* invocations of the extraction primitive in this request
    written,          \* entries the extractor wrote during the running attempt
    notes,            \* what the handler has written to the page
    download_history, \* st.session_state.download_history
    requests,         \* number of requests made in the session
    urls,             \* batch mode: the URLs to download
    batch_index,      \* batch mode: number of URLs processed (loop variable i)
    successful,       \* batch mode: number of downloads counted successful
    args,             \* inputs of the Option Builder (sidebar setting / CLI arguments)
    exit_code,        \* command line: value returned by main (meaningful once pc = "exited")
    previous          \* Option Builder: (args, options) of the call before the latest one

vars == << pc, handler, audio_format, url, options, strategy, step_options, temp_dir,
           temp_options, info, pending, result, fs, calls, written, notes,
           download_history, requests, urls, batch_index, successful, args,
           exit_code, previous >>

batchVars == << urls, batch_index, successful, args, exit_code, previous >>

NoPending == [kind |-> "none", msg |-> << >>, files |-> << >>]
NoResult == [set |-> FALSE, success |-> FALSE, files |-> << >>, error |-> None]
NoOptions == << >>

Init ==
    /\ pc = "idle"
    /\ handler = ""
    /\ audio_format = ""
    /\ url = None
    /\ options = NoOptions
    /\ strategy = 0
    /\ step_options = NoOptions
    /\ temp_dir = ""
    /\ temp_options = NoOptions
    /\ info = None
    /\ pending = NoPending
    /\ result = NoResult
    /\ fs = << >>
    /\ calls = << >>
    /\ written = {}
    /\ notes = << >>
    /\ download_history = << >>
    /\ requests = 0
    /\ urls = << >>
    /\ batch_index = 0
    /\ successful = 0
    /\ args = << >>
    /\ exit_code = 0
    /\ previous = << >>

\* os.makedirs(dir, exist_ok=True)
MakeDirs(files, dir) == IF dir \in DOMAIN files THEN files ELSE (dir :> {}) @@ files

ladderVars == << strategy, step_options, temp_dir, temp_options, info, pending, result,
                 calls, written >>

\* ------------------------------------------------------ the handlers' start
\* "Download Video" pressed in Single Video mode with a non-empty URL
SingleVideoClick ==
    /\ pc = "idle"
    /\ requests < MaxRequests
    /\ \E u \in Urls, s \in SidebarSettings, ua \in SelectedAgents :
          /\ url' = u
          /\ options' = SingleVideoOptions(s, ua)
    /\ handler' = "Single Video"
    /\ audio_format' = ""
    /\ notes' = << Note("status", "Starting download...", << >>) >>
    /\ strategy' = 1
    /\ pc' = "begin"
    /\ requests' = requests + 1
    /\ fs' = MakeDirs(fs, get_output_directory)
    /\ UNCHANGED << step_options, temp_dir, temp_options, info, pending, result, calls, written,
                    download_history, batchVars >>

\* "Download Audio" pressed in Audio Only mode with a non-empty URL
AudioOnlyClick ==
    /\ pc = "idle"
    /\ requests < MaxRequests
    /\ \E u \in Urls, ua \in SelectedAgents :
          /\ url' = u
          /\ options' = AudioOnlyOptions(ua)
    /\ audio_format' = ""
    /\ handler' = "Audio Only"
    /\ notes' = << Note("status", "Extracting audio...", << >>) >>
    /\ strategy' = 1
    /\ pc' = "begin"
    /\ requests' = requests + 1
    /\ fs' = MakeDirs(fs, get_output_directory)
    /\ UNCHANGED << step_options, temp_dir, temp_options, info, pending, result, calls, written,
                    download_history, batchVars >>

\* ------------------------------------------------ download_video_to_memory
\* Start of a strategy: build its options, announce strategies 2..4.
StrategyBegin ==
    /\ pc = "begin"
    /\ IF StrategyKeyError(strategy, options)
       THEN /\ pending' = [kind |-> "exc", msg |-> KeyErrorMsg, files |-> << >>]
            /\ pc' = "except"
            /\ UNCHANGED << step_options, notes, options >>
       ELSE /\ step_options' = StrategyOptions(strategy, options)
            /\ options' = CallerOptionsAfter(strategy, options)
            /\ notes' = IF Announces(strategy)
                        THEN Append(notes, Note("info", InfoLabel(strategy), << >>))
                        ELSE notes
            /\ pc' = "mkdtemp"
            /\ UNCHANGED pending
    /\ UNCHANGED << written, handler, audio_format, url, strategy, temp_dir, temp_options,
                    info, result, fs, calls, download_history, requests, batchVars >>

\* _attempt_download: with tempfile.TemporaryDirectory() as temp_dir
EnterTempDir ==
    /\ pc = "mkdtemp"
    /\ TempNames \ DOMAIN fs # {}
    /\ LET d == mkdtemp(fs)
       IN  /\ temp_dir' = d
           /\ fs' = (d :> {}) @@ fs
           /\ temp_options' = TempOptions(step_options, d)
    /\ pc' = "extract"
    /\ UNCHANGED << written, handler, audio_format, url, options, strategy, step_options, info,
                    pending, result, calls, notes, download_history, requests, batchVars >>

\* A record of one invocation of the extraction primitive
Call(k, u, opts, kind, raised, msg) ==
    [strategy |-> k, url |-> u, options |-> opts, kind |-> kind, raised |-> raised,
     msg |-> msg]

\* _attempt_download: ydl.extract_info(url, download=True)
ExtractInfo ==
    /\ pc = "extract"
    /\ \E kind \in ExtractionKinds, w \in WrittenSets :
          LET dir == temp_options["outtmpl"].dir
          IN  /\ fs' = [fs EXCEPT ![dir] = @ \cup w]
              /\ written' = w
              /\ IF ExtractorRaises(temp_options, kind)
                 THEN \E e \in Errors :
                         /\ pending' = [kind |-> "exc", msg |-> e, files |-> << >>]
                         /\ calls' = Append(calls, Call(strategy, url, temp_options, kind, TRUE, e))
                         /\ pc' = "cleanup"
                         /\ UNCHANGED info
                 ELSE /\ \E meta \in Infos :
                            info' = IF kind = "ok" THEN meta ELSE None
                      /\ calls' = Append(calls,
                                         Call(strategy, url, temp_options, kind, FALSE, << >>))
                      /\ pc' = "scan"
                      /\ UNCHANGED pending
    /\ UNCHANGED << handler, audio_format, url, options, strategy, step_options, temp_dir,
                    temp_options, result, notes, download_history, requests, batchVars >>

\* _attempt_download: the loop over os.listdir(temp_dir); listing or reading
\* may raise (OSError), and reading a directory does
ScanFiles ==
    /\ pc = "scan"
    /\ \/ \E listing \in Listings(fs[temp_dir]) :
             IF ReadRaises(listing)
             THEN pending' = [kind |-> "exc", msg |-> OSErrorMsg, files |-> << >>]
             ELSE pending' = [kind |-> "ret", msg |-> << >>,
                              files |-> ScanEntries(listing, info)]
       \/ pending' = [kind |-> "exc", msg |-> OSErrorMsg, files |-> << >>]
    /\ pc' = "cleanup"
    /\ UNCHANGED << written, handler, audio_format, url, options, strategy, step_options, temp_dir,
                    temp_options, info, result, fs, calls, notes, download_history,
                    requests, batchVars >>

\* rmtree of the scratch directory
RemoveDir(files, dir) == [d \in (DOMAIN files) \ {dir} |-> files[d]]

ExitTempDir_OnlyOnReturn ==
    /\ pc = "cleanup"
    /\ fs' = IF pending.kind = "ret" THEN RemoveDir(fs, temp_dir) ELSE fs
    /\ temp_dir' = ""
    /\ written' = {}
    /\ pc' = IF pending.kind = "exc" THEN "except" ELSE "return"
    /\ UNCHANGED << handler, audio_format, url, options, strategy, step_options,
                    temp_options, info, pending, result, calls, notes, download_history,
                    requests, batchVars >>

\* _attempt_download: leaving the with block removes the scratch directory,
\* whether the block returns or raises
ExitTempDir ==
    /\ pc = "cleanup"
    /\ fs' = RemoveDir(fs, temp_dir)
    /\ temp_dir' = ""
    /\ written' = {}
    /\ pc' = IF pending.kind = "exc" THEN "except" ELSE "return"
    /\ UNCHANGED << handler, audio_format, url, options, strategy, step_options,
                    temp_options, info, pending, result, calls, notes, download_history,
                    requests, batchVars >>

StrategyReturn_FallThrough ==
    /\ pc = "return"
    /\ IF strategy < 4
       THEN /\ strategy' = strategy + 1
            /\ pc' = "begin"
            /\ UNCHANGED result
       ELSE /\ result' = [set |-> TRUE, success |-> TRUE, files |-> pending.files,
                          error |-> None]
            /\ pc' = "returned"
            /\ UNCHANGED strategy
    /\ pending' = NoPending
    /\ UNCHANGED << written, handler, audio_format, url, options, step_options, temp_dir,
                    temp_options, info, fs, calls, notes, download_history, requests,
                    batchVars >>

\* return _attempt_download(...): the strategy's outcome is the request's
StrategyReturn ==
    /\ pc = "return"
    /\ result' = [set |-> TRUE, success |-> TRUE, files |-> pending.files, error |-> None]
    /\ pending' = NoPending
    /\ pc' = "returned"
    /\ UNCHANGED << written, handler, audio_format, url, options, strategy, step_options, temp_dir,
                    temp_options, info, fs, calls, notes, download_history, requests, batchVars >>

\* Variant that returns the bare error text, as download_video does
FailureResult_BareMessage(msg) ==
    [set |-> TRUE, success |-> FALSE, files |-> << >>, error |-> msg]

\* return False, [], error_msg
FailureResult(msg) ==
    [set |-> TRUE, success |-> FALSE, files |-> << >>, error |-> << AllFailedPrefix >> \o msg]

\* except Exception as e: warn and fall through to the next strategy; after
\* strategy 4 return the failure
StrategyExcept ==
    /\ pc = "except"
    /\ IF ~IsLastStrategy(strategy)
       THEN /\ notes' = Append(notes, Note("warning", WarningLabel(strategy),
                                           Truncate(pending.msg)))
            /\ strategy' = NextStrategy(strategy, pending.msg)
            /\ pc' = "begin"
            /\ UNCHANGED result
       ELSE /\ result' = FailureResult(pending.msg)
            /\ pc' = "returned"
            /\ UNCHANGED << notes, strategy >>
    /\ pending' = NoPending
    /\ UNCHANGED << written, handler, audio_format, url, options, step_options, temp_dir,
                    temp_options, info, fs, calls, download_history, requests, batchVars >>

\* ------------------------------------------------- the handlers' rendering
\* MIME type of a download button in the single-video handler
MimeType(ext) ==
    IF ext \in { << ".", "m", "p", "4" >>, << ".", "m", "k", "v" >>,
                 << ".", "w", "e", "b", "m" >> }
    THEN "video/mp4"
    ELSE IF ext \in { << ".", "m", "p", "3" >>, << ".", "m", "4", "a" >>,
                      << ".", "w", "a", "v" >>, << ".", "f", "l", "a", "c" >> }
    THEN "audio/mpeg"
    ELSE "application/octet-stream"

FileNames(files) == [i \in 1..Len(files) |-> files[i].name]

\* One download button per returned file
DownloadButtons(files, audio) ==
    [i \in 1..Len(files) |->
        Note("download_button",
             IF audio THEN "audio/mpeg" ELSE MimeType(files[i].ext),
             files[i].name)]

\* if success and downloaded_files: ... else: error box
ShowsSuccess(res) == res.success /\ res.files # << >>

\* Single-video handler after download_video_to_memory has returned
SingleVideoFinish ==
    /\ pc = "returned"
    /\ handler = "Single Video"
    /\ IF ShowsSuccess(result)
       THEN /\ notes' = (Append(notes, Note("success-box",
                                            "Download completed successfully!", << >>))
                         \o DownloadButtons(result.files, FALSE))
            /\ download_history' =
                  Append(download_history,
                         [url |-> url, type |-> "Single Video",
                          files |-> FileNames(result.files)])
       ELSE /\ notes' = Append(notes, Note("error-box", "Download failed: ", result.error))
            /\ UNCHANGED download_history
    /\ pc' = "rendered"
    /\ UNCHANGED << handler, audio_format, url, options, ladderVars, fs, requests,
                    batchVars >>

\* Audio-only handler after download_video_to_memory has returned
AudioOnlyFinish ==
    /\ pc = "returned"
    /\ handler = "Audio Only"
    /\ IF ShowsSuccess(result)
       THEN notes' = (Append(notes, Note("success-box",
                                         "Audio extracted successfully!", << >>))
                      \o DownloadButtons(result.files, TRUE))
       ELSE notes' = Append(notes, Note("error-box", "Audio extraction failed: ",
                                        result.error))
    /\ pc' = "rendered"
    /\ UNCHANGED << handler, audio_format, url, options, ladderVars, fs, requests,
                    download_history, batchVars >>

\* The next interaction reruns the script: the page is drawn afresh and the
\* locals of the previous run are gone; session state and files remain.
Rerun ==
    /\ pc = "rendered"
    /\ pc' = "idle"
    /\ handler' = ""
    /\ audio_format' = ""
    /\ url' = None
    /\ options' = NoOptions
    /\ strategy' = 0
    /\ step_options' = NoOptions
    /\ temp_dir' = ""
    /\ temp_options' = NoOptions
    /\ info' = None
    /\ pending' = NoPending
    /\ result' = NoResult
    /\ calls' = << >>
    /\ written' = {}
    /\ notes' = << >>
    /\ urls' = << >>
    /\ batch_index' = 0
    /\ successful' = 0
    /\ UNCHANGED << fs, download_history, requests, args, exit_code, previous >>

\* "Clear History" pressed (the button is shown when the history is not empty)
ClearHistory ==
    /\ pc = "idle"
    /\ download_history # << >>
    /\ download_history' = << >>
    /\ UNCHANGED << pc, handler, audio_format, url, options, ladderVars, fs, notes,
                    requests, batchVars >>

\* ---------------------------------------------------------------- batch mode
\* Number of lines typed into the batch text area
MaxBatchLines == 2

\* str.strip() on a sequence of tokens: blanks removed at both ends
RECURSIVE LStrip(_)
LStrip(line) ==
    IF line # << >> /\ Head(line) = " " THEN LStrip(Tail(line)) ELSE line

RECURSIVE RStrip(_)
RStrip(line) ==
    IF line # << >> /\ line[Len(line)] = " "
    THEN RStrip(SubSeq(line, 1, Len(line) - 1))
    ELSE line

Strip(line) == RStrip(LStrip(line))

\* [url.strip() for url in urls_text.split('\n') if url.strip()]
RECURSIVE StripLines(_)
StripLines(lines) ==
    IF lines = << >> THEN << >>
    ELSE (IF Truthy(Strip(Head(lines))) THEN << Strip(Head(lines)) >> ELSE << >>)
         \o StripLines(Tail(lines))

\* Lines typed into the text area
LinePool == { << >>, << " " >>, UrlA, << " " >> \o UrlB \o << " " >> }

\* urls_text.split('\n'); the text is truthy unless it is the empty string
BatchTexts ==
    { t \in UNION { [1..n -> LinePool] : n \in 1..MaxBatchLines } : t # << << >> >> }

\* (quality, subtitle_langs) of the sidebar tried in batch mode
BatchSettings ==
    { Setting("Custom Format", << "18" >>, None, FALSE, FALSE, FALSE),
      Setting("720p", None, << "en" >>, FALSE, FALSE, FALSE) }

\* "Download All" pressed in Batch URLs mode with a non-empty text
BatchClick ==
    /\ pc = "idle"
    /\ requests < MaxRequests
    /\ \E text \in BatchTexts, s \in BatchSettings, ua \in SelectedAgents :
          LET parsed == StripLines(text)
          IN  /\ urls' = parsed
              /\ IF Truthy(parsed)
                 THEN /\ options' = create_download_options(s.quality, FALSE,
                                                            s.subtitle_langs, None, ua)
                      /\ fs' = MakeDirs(fs, get_output_directory)
                      /\ pc' = "batch_loop"
                 ELSE /\ pc' = "rendered"
                      /\ UNCHANGED << options, fs >>
    /\ handler' = "Batch URLs"
    /\ batch_index' = 0
    /\ successful' = 0
    /\ requests' = requests + 1
    /\ UNCHANGED << audio_format, url, ladderVars, notes, download_history, args,
                    exit_code, previous >>

\* One iteration of the loop: download_video(url, options), i.e.
\* ydl.download([url]) with the configured (Downloads) output template
BatchIteration ==
    /\ pc = "batch_loop"
    /\ batch_index < Len(urls)
    /\ LET u == urls[batch_index + 1]
           dir == options["outtmpl"].dir
       IN  /\ url' = u
           /\ \E kind \in ExtractionKinds, w \in LegacyWrittenSets :
                 /\ fs' = [fs EXCEPT ![dir] = @ \cup w]
                 /\ IF ExtractorRaises(options, kind)
                    THEN \E e \in Errors :
                            /\ calls' = Append(calls, Call(0, u, options, kind, TRUE, e))
                            /\ UNCHANGED successful
                    ELSE /\ calls' = Append(calls, Call(0, u, options, kind, FALSE, << >>))
                         /\ successful' = successful + 1
           /\ notes' = Append(notes, Note("status", "Downloading", u))
    /\ batch_index' = batch_index + 1
    /\ UNCHANGED << pc, handler, audio_format, options, strategy, step_options, temp_dir,
                    temp_options, info, pending, result, written, download_history,
                    requests, urls, args, exit_code, previous >>

\* After the loop: the aggregate summary
BatchSummary ==
    /\ pc = "batch_loop"
    /\ batch_index = Len(urls)
    /\ notes' = Append(notes,
                       IF successful = Len(urls)
                       THEN Note("success-box", "All downloads completed successfully!",
                                 << successful, Len(urls) >>)
                       ELSE Note("info-box", "Completed downloads successfully.",
                                 << successful, Len(urls) >>))
    /\ pc' = "rendered"
    /\ UNCHANGED << handler, audio_format, url, options, ladderVars, fs, download_history,
                    requests, batchVars >>

\* ------------------------------------------------------------ playlist mode
\* "Download Playlist" pressed with a non-empty URL: the options are built,
\* download_video(playlist_url, options) runs and its outcome is shown
PlaylistDownload ==
    /\ pc = "idle"
    /\ requests < MaxRequests
    /\ \E u \in Urls, s \in BatchSettings, ua \in SelectedAgents,
          kind \in ExtractionKinds, w \in LegacyWrittenSets, e \in Errors :
          LET opts == Put(create_download_options(s.quality, FALSE, s.subtitle_langs,
                                                  None, ua),
                          "noplaylist", FALSE)
              raised == ExtractorRaises(opts, kind)
          IN  /\ url' = u
              /\ options' = opts
              /\ fs' = [MakeDirs(fs, get_output_directory)
                            EXCEPT ![get_output_directory] = @ \cup w]
              /\ calls' = Append(calls, Call(0, u, opts, kind, raised,
                                             IF raised THEN e ELSE << >>))
              /\ notes' = << Note("status", "Downloading playlist...", << >>),
                             IF raised
                             THEN Note("error-box", "Playlist download failed: ", e)
                             ELSE Note("success-box", "Playlist downloaded successfully!",
                                       << >>) >>
    /\ handler' = "Playlist"
    /\ requests' = requests + 1
    /\ pc' = "rendered"
    /\ UNCHANGED << audio_format, strategy, step_options, temp_dir, temp_options, info,
                    pending, result, written, download_history, batchVars >>

Next ==
    \/ SingleVideoClick
    \/ AudioOnlyClick
    \/ StrategyBegin
    \/ EnterTempDir
    \/ ExtractInfo
    \/ ScanFiles
    \/ ExitTempDir
    \/ StrategyReturn
    \/ StrategyExcept
    \/ SingleVideoFinish
    \/ AudioOnlyFinish
    \/ Rerun
    \/ ClearHistory
    \/ BatchClick
    \/ BatchIteration
    \/ BatchSummary
    \/ PlaylistDownload

Spec == Init /\ [][Next]_vars

\* One request of the web front-end through the fallback ladder
NextLadder ==
    \/ SingleVideoClick
    \/ AudioOnlyClick
    \/ StrategyBegin
    \/ EnterTempDir
    \/ ExtractInfo
    \/ ScanFiles
    \/ ExitTempDir
    \/ StrategyReturn
    \/ StrategyExcept
    \/ SingleVideoFinish
    \/ AudioOnlyFinish

SpecLadder == Init /\ [][NextLadder]_vars

\* The handler runs on its own thread of control: a step that can be taken is taken
SpecLadderFair == SpecLadder /\ WF_vars(NextLadder)

\* Sessions of batch downloads
NextBatch ==
    \/ BatchClick
    \/ BatchIteration
    \/ BatchSummary
    \/ Rerun

SpecBatch == Init /\ [][NextBatch]_vars


\* ------------------------------------------------- youtube_downloader.py
CliAudioCodecs == {"mp3", "m4a", "opus", "wav", "flac", "aac"}

\* Defaults of build_parser; an option that was not given is "" (None)
DefaultArgs ==
    [ urls |-> << UrlA >>, batch_file |-> "", output_dir |-> "Downloads",
      template |-> OutputTemplate,
      format |-> << "bestvideo*", "+", "bestaudio", "/", "best" >>,
      merge_format |-> "mp4", audio_format |-> "", audio_quality |-> "0",
      subtitles |-> FALSE, sub_langs |-> << "en" >>, auto_subs |-> FALSE,
      embed_metadata |-> FALSE, embed_thumbnail |-> FALSE, embed_subs |-> FALSE,
      write_thumbnail |-> FALSE, cookies |-> "", proxy |-> "", rate_limit |-> "",
      retries |-> 10, fragment_retries |-> 10, concurrent_fragments |-> 5,
      no_check_certificate |-> FALSE, download_archive |-> "",
      no_playlist |-> FALSE, yes_playlist |-> FALSE, quiet |-> FALSE, verbose |-> FALSE ]

\* Command lines tried
CliArgs ==
    { [DefaultArgs EXCEPT !.audio_format = af, !.embed_thumbnail = et,
                          !.embed_metadata = em, !.subtitles = sb, !.auto_subs = sb,
                          !.quiet = sb, !.proxy = IF em THEN "socks5://127.0.0.1:1080" ELSE ""] :
        af \in CliAudioCodecs \cup {""}, et \in BOOLEAN, em \in BOOLEAN, sb \in BOOLEAN }

\* d[k] = v if cond
PutIf(cond, d, k, v) == IF cond THEN Put(d, k, v) ELSE d

\* ydl_opts.setdefault("postprocessors", []).append(pp)
AppendPostprocessor(d, pp) ==
    Put(d, "postprocessors",
        Append(IF Has(d, "postprocessors") THEN d["postprocessors"] ELSE << >>, pp))

make_ydl_opts(a) ==
    LET base ==
            ("outtmpl" :> PathJoin(a.output_dir, a.template))
            @@ ("ignoreerrors" :> TRUE)
            @@ ("noplaylist" :> (a.no_playlist /\ ~a.yes_playlist))
            @@ ("skip_unavailable_fragments" :> TRUE)
            @@ ("retries" :> a.retries)
            @@ ("fragment_retries" :> a.fragment_retries)
            @@ ("concurrent_fragment_downloads" :> a.concurrent_fragments)
            @@ ("continuedl" :> TRUE)
            @@ ("merge_output_format" :> a.merge_format)
        o1 == IF a.verbose THEN Put(base, "verbose", TRUE)
              ELSE PutIf(a.quiet, base, "quiet", TRUE)
        o2 == PutIf(a.rate_limit # "", o1, "ratelimit", a.rate_limit)
        o3 == PutIf(a.cookies # "", o2, "cookiefile", a.cookies)
        o4 == PutIf(a.proxy # "", o3, "proxy", a.proxy)
        o5 == PutIf(a.download_archive # "", o4, "download_archive", a.download_archive)
        o6 == PutIf(a.no_check_certificate, o5, "nocheckcertificate", TRUE)
        o7 == IF a.subtitles
              THEN PutIf(a.auto_subs,
                         Put(Put(o6, "writesubtitles", TRUE), "subtitleslangs", a.sub_langs),
                         "writeautomaticsub", TRUE)
              ELSE o6
        o8 == PutIf(a.embed_subs, o7, "embedsubtitles", TRUE)
        o9 == PutIf(a.write_thumbnail, o8, "writethumbnail", TRUE)
        o10 == PutIf(a.embed_thumbnail, o9, "embedthumbnail", TRUE)
        o11 == PutIf(a.embed_metadata, o10, "addmetadata", TRUE)
    IN  IF a.audio_format # ""
        THEN LET withFormat == Put(o11, "format", << "bestaudio", "/", "best" >>)
                 withAudio == AppendPostprocessor(withFormat,
                                  [key |-> "FFmpegExtractAudio",
                                   preferredcodec |-> a.audio_format,
                                   preferredquality |-> a.audio_quality])
             IN  IF a.embed_thumbnail
                 THEN AppendPostprocessor(withAudio,
                          [key |-> "FFmpegThumbnailsConvertor", format |-> "jpg"])
                 ELSE withAudio
        ELSE Put(o11, "format", a.format)

\* ------------------------------------------- the Option Builder on its own
\* Sidebar settings of the single-video mode
AllSettings ==
    { Setting(q, IF q = "Custom Format" THEN cf ELSE None, subs, meta, thumb, wthumb) :
        q \in Qualities, cf \in CustomInputs, subs \in {None, << "en" >>},
        meta \in BOOLEAN, thumb \in BOOLEAN, wthumb \in BOOLEAN }

AllAgents == {user_agents[i] : i \in 1..Len(user_agents)}

optionVars == << url, ladderVars, fs, notes, download_history, requests, urls, batch_index,
                 successful, exit_code >>

\* Audio Only mode: the handler builds its options
BuildAudioOnly ==
    /\ pc = "idle"
    /\ \E af \in AudioFormats, ua \in AllAgents :
          /\ audio_format' = af
          /\ options' = AudioOnlyOptions(ua)
    /\ handler' = "Audio Only"
    /\ args' = << >>
    /\ pc' = "built"
    /\ UNCHANGED << optionVars, previous >>

\* Single Video mode: the handler builds its options
BuildSingleVideo ==
    /\ pc = "idle"
    /\ \E s \in AllSettings, ua \in AllAgents :
          /\ args' = s
          /\ options' = SingleVideoOptions(s, ua)
    /\ handler' = "Single Video"
    /\ audio_format' = ""
    /\ pc' = "built"
    /\ UNCHANGED << optionVars, previous >>

\* Command line: main builds its options
BuildCli ==
    /\ pc = "idle"
    /\ \E a \in CliArgs :
          /\ args' = a
          /\ options' = make_ydl_opts(a)
    /\ handler' = "cli"
    /\ audio_format' = ""
    /\ pc' = "built"
    /\ UNCHANGED << optionVars, previous >>

\* Single Video mode: the next click builds the options again, under any
\* sidebar setting and with a fresh random.choice
BuildAgain ==
    /\ pc = "built"
    /\ handler = "Single Video"
    /\ previous' = [args |-> args, options |-> options]
    /\ \E s \in AllSettings, ua \in AllAgents :
          /\ args' = s
          /\ options' = SingleVideoOptions(s, ua)
    /\ pc' = "rebuilt"
    /\ UNCHANGED << handler, audio_format, optionVars >>

NextOptions ==
    \/ BuildAudioOnly
    \/ BuildSingleVideo
    \/ BuildCli
    \/ BuildAgain

SpecOptions == Init /\ [][NextOptions]_vars

\* ------------------------------------------ youtube_downloader.py: main
\* Number of positional URLs on the command line
MaxCliUrls == 2

\* Text files a --batch-file option may name: path |-> lines
TextFiles ==
    ("blank.txt" :> << << >>, << " ", "#", "c" >>, << " " >> >>)
    @@ ("urls.txt" :> << UrlA, << "#", "c" >>, << " " >> \o UrlB \o << " " >>, UrlA >>)

\* read_urls_from_file: stripped lines, blank lines and '#' comments skipped
RECURSIVE ReadLines(_)
ReadLines(lines) ==
    IF lines = << >> THEN << >>
    ELSE LET line == Strip(Head(lines))
         IN  (IF line = << >> \/ Head(line) = "#" THEN << >> ELSE << line >>)
             \o ReadLines(Tail(lines))

read_urls_from_file(path) == ReadLines(TextFiles[path])

\* The de-duplication loop of collect_urls: first occurrences, in order
RECURSIVE Unique(_, _)
Unique(list, seen) ==
    IF list = << >> THEN << >>
    ELSE IF Head(list) \in seen THEN Unique(Tail(list), seen)
    ELSE << Head(list) >> \o Unique(Tail(list), seen \cup {Head(list)})

\* Variant that puts the positional URLs before those of the batch file
collect_urls_ArgsFirst(a) ==
    LET fromFile == IF a.batch_file # "" THEN read_urls_from_file(a.batch_file) ELSE << >>
        fromArgs == IF Truthy(a.urls) THEN a.urls ELSE << >>
    IN  Unique(fromArgs \o fromFile, {})

collect_urls(a) ==
    LET fromFile == IF a.batch_file # "" THEN read_urls_from_file(a.batch_file) ELSE << >>
        fromArgs == IF Truthy(a.urls) THEN a.urls ELSE << >>
    IN  Unique(fromFile \o fromArgs, {})

\* Command lines: positional URLs and an optional batch file
CliUrlLists == UNION { [1..n -> Urls] : n \in 0..MaxCliUrls }

CliInvocations ==
    { [DefaultArgs EXCEPT !.urls = us, !.batch_file = bf] :
        us \in CliUrlLists, bf \in {""} \cup DOMAIN TextFiles }

\* all(c == 0 for c in exit_codes)
AllZero(codes) == \A i \in 1..Len(codes) : codes[i] = 0

\* exit_codes after the try statement of download: the value ydl.download
\* returned is appended when it is an int, 1 is appended when it raised
ExitCodes(raised, is_int, code) ==
    IF raised THEN << 1 >> ELSE IF is_int THEN << code >> ELSE << >>

\* download(urls, ydl_opts), given what ydl.download did
download(requested, raised, is_int, code) ==
    IF requested = << >> THEN 2
    ELSE IF AllZero(ExitCodes(raised, is_int, code)) THEN 0 ELSE 1

\* Index of the first URL at which the extractor raises (0 when it never does)
FirstRaise(opts, kinds) ==
    IF \E i \in DOMAIN kinds : ExtractorRaises(opts, kinds[i])
    THEN CHOOSE i \in DOMAIN kinds :
            /\ ExtractorRaises(opts, kinds[i])
            /\ \A j \in 1..(i - 1) : ~ExtractorRaises(opts, kinds[j])
    ELSE 0

\* main: parse_args and collect_urls; no URL: the error is printed, 2 returned
CliMain ==
    /\ pc = "idle"
    /\ \E a \in CliInvocations :
          /\ args' = a
          /\ urls' = collect_urls(a)
          /\ IF collect_urls(a) = << >>
             THEN /\ notes' = Append(notes, Note("stderr",
                                      "Error: No URLs provided after processing inputs.",
                                      << >>))
                  /\ exit_code' = 2
                  /\ pc' = "exited"
             ELSE /\ pc' = "cli_opts"
                  /\ UNCHANGED << notes, exit_code >>
    /\ handler' = "cli"
    /\ UNCHANGED << audio_format, url, options, ladderVars, fs, download_history, requests,
                    batch_index, successful, previous >>

\* main: ydl_opts = make_ydl_opts(args), which creates the output directory
CliMakeOpts ==
    /\ pc = "cli_opts"
    /\ options' = make_ydl_opts(args)
    /\ fs' = MakeDirs(fs, args.output_dir)
    /\ pc' = "cli_download"
    /\ UNCHANGED << handler, audio_format, url, ladderVars, notes, download_history,
                    requests, batchVars >>

\* main: return download(urls, ydl_opts); ydl.download(urls) handles the URLs
\* in order, returns its return code (1 after a download error it swallowed)
\* or a value that is not an int, or raises
CliDownload ==
    /\ pc = "cli_download"
    /\ \E kinds \in [1..Len(urls) -> ExtractionKinds], e \in Errors, is_int \in BOOLEAN,
          w \in LegacyWrittenSets :
          LET r == FirstRaise(options, kinds)
              handled == IF r = 0 THEN Len(urls) ELSE r
              code == IF \E i \in 1..handled : kinds[i] = "extraction_failure"
                      THEN 1 ELSE 0
          IN  /\ calls' = [i \in 1..handled |->
                              Call(0, urls[i], options, kinds[i], i = r,
                                   IF i = r THEN e ELSE << >>)]
              /\ fs' = [fs EXCEPT ![options["outtmpl"].dir] = @ \cup w]
              /\ exit_code' = download(urls, r # 0, is_int, code)
    /\ pc' = "exited"
    /\ UNCHANGED << handler, audio_format, url, options, strategy, step_options, temp_dir,
                    temp_options, info, pending, result, written, notes, download_history,
                    requests, urls, batch_index, successful, args, previous >>

NextCli ==
    \/ CliMain
    \/ CliMakeOpts
    \/ CliDownload

SpecCli == Init /\ [][NextCli]_vars

\* ===================================================================== claims
InAttempt == pc \in {"extract", "scan", "cleanup"}
Returned == pc \in {"returned", "rendered"}
LadderRequest == handler \in {"Single Video", "Audio Only"}
LastCall == calls[Len(calls)]

IsInfo(n) == n.kind = "info"
InfoNotes == SelectSeq(notes, IsInfo)

\* Scratch directories that exist
LiveScratch == DOMAIN fs \cap TempNames

\* name = stem + one of the recognised extensions
MediaSuffixes(name) ==
    {x \in MediaExtensions : \E n \in 0..Len(name) : SubSeq(name, n + 1, Len(name)) = x}

\* C1 as stated: once an extractor call has returned without raising, no
\* further extractor call is made for the request.
C1_ExtractorReturnEndsLadder ==
    \A i \in 1..Len(calls) : ~calls[i].raised => i = Len(calls)

\* C1 amended: once a step has succeeded (its extractor call returned and
\* the enumeration of its scratch directory raised nothing), no further
\* extractor call is made for the request, the outcome is a success that
\* holds exactly the files enumerated by that step, all of them written by
\* that step's extractor call, and the outcome is set once.
C1_StepSuccessEndsLadder ==
    /\ [](LadderRequest /\ (pc = "return" \/ (Returned /\ result.success))
            => /\ Len(calls) = strategy
               /\ LastCall.strategy = strategy
               /\ ~LastCall.raised)
    /\ [][ /\ (pc = "cleanup" /\ pending.kind = "ret")
              => /\ \A i \in 1..Len(pending.files) :
                       \E e \in written : /\ pending.files[i].name = e.name
                                          /\ pending.files[i].data = e.data
                 /\ pc' = "return" /\ pending' = pending /\ calls' = calls
           /\ pc = "return"
              => /\ calls' = calls
                 /\ pc' = "returned"
                 /\ ~result.set
                 /\ result'.set /\ result'.success /\ result'.files = pending.files
           /\ (Returned /\ LadderRequest /\ result.success)
              => (pc' = "idle" \/ (calls' = calls /\ result' = result))
         ]_vars

\* Step 2 has succeeded after step 1 failed: two extractor calls, one outcome.
C1_Witness ==
    /\ pc = "returned" /\ result.success /\ result.files # << >>
    /\ strategy = 2 /\ Len(calls) = 2

AllInvocationsRaised == \A i \in 1..Len(calls) : calls[i].raised

\* C2: when every invocation of the extraction primitive raises, the request
\* ends after exactly four invocations, for strategies 1, 2, 3, 4 in this
\* order, with a failure (flag false, no files) whose message is built from
\* the error of the fourth invocation.
C2_AllRaiseFourAttempts ==
    (Returned /\ LadderRequest /\ AllInvocationsRaised)
        => /\ Len(calls) = 4
           /\ \A i \in 1..4 : calls[i].strategy = i
           /\ result.set /\ ~result.success /\ result.files = << >>
           /\ result.error = << AllFailedPrefix >> \o calls[4].msg

\* All four invocations raised, the fourth with another error than the others.
C2_Witness ==
    /\ pc = "returned" /\ Len(calls) = 4 /\ AllInvocationsRaised
    /\ calls[4].msg = LongMsg
    /\ \A i \in 1..3 : calls[i].msg = ShortMsg
    /\ result.error = << AllFailedPrefix >> \o LongMsg

\* C3: a step that finds no media file in its scratch directory does not
\* return; the request never returns a success with an empty file list.
C3_EmptyStepIsFailure ==
    /\ pc = "return" => pending.files # << >>
    /\ (result.set /\ result.success) => result.files # << >>

\* C4: with options from the Option Builder, an extraction failure in a
\* step before the fourth is never the end of the request: once the request
\* has returned, the next step has been invoked too.
C4_ExtractionFailureFallsThrough ==
    \A i \in 1..Len(calls) :
        (LadderRequest /\ result.set
         /\ calls[i].kind = "extraction_failure" /\ calls[i].strategy < 4)
            => \E j \in 1..Len(calls) : calls[j].strategy = calls[i].strategy + 1

\* C5: the notifications on the page are those of strategies 2..k in this
\* order, where k is the last strategy begun; each is on the page before the
\* extractor is invoked for its strategy, none is before the invocation for
\* strategy 1, and emitting one leaves the strategy unchanged.
C5_NotificationsBeforeSteps ==
    /\ [](LadderRequest
            => /\ InfoNotes = [i \in 1..Len(InfoNotes) |->
                                  Note("info", InfoLabel(i + 1), << >>)]
               /\ Len(InfoNotes) + 1 <= strategy
               /\ \A i \in 1..Len(calls) : calls[i].strategy <= Len(InfoNotes) + 1
               /\ (pc \in {"mkdtemp", "extract"}) => Len(InfoNotes) + 1 = strategy
               /\ calls = << >> => InfoNotes = << >>)
    /\ [][(LadderRequest /\ Len(notes') > Len(notes) /\ notes'[Len(notes')].kind = "info")
             => (strategy' = strategy /\ pc = "begin" /\ pc' = "mkdtemp")]_vars

\* Steps 1 and 2 failed, step 3 succeeded: notified for 2 and 3 only.
C5_Witness ==
    /\ pc = "returned" /\ result.success /\ strategy = 3 /\ Len(calls) = 3
    /\ InfoNotes = << Note("info", InfoLabel(2), << >>), Note("info", InfoLabel(3), << >>) >>

\* C6: every extractor invocation is given an output template inside the
\* scratch directory of its own attempt, never the Downloads directory; the
\* scratch directory is new and empty when the extractor starts, holds only
\* what this attempt's extractor wrote when it is enumerated, and the ladder
\* leaves the Downloads directory untouched.
C6_ScratchIsolation ==
    /\ [](LadderRequest
            => /\ \A i \in 1..Len(calls) :
                     /\ calls[i].options["outtmpl"].dir \in TempNames
                     /\ calls[i].options["outtmpl"].dir # get_output_directory
               /\ InAttempt => /\ temp_dir \in DOMAIN fs
                               /\ temp_options["outtmpl"].dir = temp_dir
               /\ pc = "extract" => fs[temp_dir] = {}
               /\ pc \in {"scan", "cleanup"}
                     => /\ fs[temp_dir] = written
                        /\ LastCall.options["outtmpl"].dir = temp_dir
                        /\ LastCall.strategy = strategy
               /\ fs[get_output_directory] = {})
    /\ [][pc = "mkdtemp" => (temp_dir' \notin DOMAIN fs /\ temp_dir' \in DOMAIN fs')]_vars

\* A later step enumerates a directory that holds its own files only.
C6_Witness ==
    /\ pc = "scan" /\ strategy = 3
    /\ written # {} /\ fs[temp_dir] = written
    /\ fs[get_output_directory] = {}

\* C7: a scratch directory exists only while its attempt runs; it is gone
\* when the attempt has returned or raised (extractor error or enumeration
\* error alike), so before the next strategy starts and before the request
\* returns, and never two exist at once.
C7_ScratchRemoved ==
    /\ InAttempt => LiveScratch = {temp_dir}
    /\ ~InAttempt => (LiveScratch = {} /\ temp_dir = "")

\* The enumeration of strategy 1 raised; its directory is gone.
C7_Witness ==
    /\ pc = "except" /\ strategy = 1
    /\ pending.msg = OSErrorMsg /\ ~LastCall.raised
    /\ LiveScratch = {}

\* C8: a step that returns has one DownloadedFile for each top-level entry
\* of its scratch directory whose name ends in a recognised extension and
\* none for other entries; name, data, size, ext and title are the entry's
\* name, content, number of bytes, extension, and the reported title or
\* "Unknown".
C8_DownloadedFiles ==
    (pc = "cleanup" /\ pending.kind = "ret")
        => LET files == pending.files
               media == {e \in fs[temp_dir] : MediaSuffixes(e.name) # {}}
               title == IF info # None /\ "title" \in DOMAIN info
                        THEN info["title"] ELSE "Unknown"
           IN  /\ Len(files) = Cardinality(media)
               /\ \A e \in media :
                     \E i \in 1..Len(files) :
                        /\ files[i].name = e.name
                        /\ files[i].data = e.data
                        /\ files[i].size = Len(e.data)
                        /\ files[i].ext \in MediaSuffixes(e.name)
                        /\ files[i].title = title
               /\ \A i \in 1..Len(files) : \E e \in media : files[i].name = e.name

\* A directory with a .webm file and a partial download: one file returned.
C8_Witness ==
    /\ pc = "cleanup" /\ pending.kind = "ret"
    /\ Cardinality(fs[temp_dir]) = 2
    /\ Len(pending.files) = 1
    /\ pending.files[1].name = NameClipWebm
    /\ pending.files[1].size = 1
    /\ pending.files[1].title = "T1"


\* The codec named by a value of the "Audio Format" selectbox
CodecOfAudioFormat(af) ==
    CASE af = "MP3" -> "mp3"
      [] af = "M4A" -> "m4a"
      [] af = "FLAC" -> "flac"
      [] af = "WAV" -> "wav"

\* The first preference of the selector is an audio-only stream
TargetsAudio(format) ==
    /\ format # << >>
    /\ format[1] \in {"bestaudio", "bestaudio[ext=m4a]", "bestaudio[ext=mp3]"}

AudioTranscoders(opts) ==
    {i \in 1..Len(opts["postprocessors"]) : opts["postprocessors"][i].key = "FFmpegExtractAudio"}

\* C9: every audio-only request, of the web front-end with any audio format
\* selected and of the command line with any -A codec, gets a configuration
\* whose format selector targets audio and whose postprocessors hold exactly
\* one audio transcoder, for the codec the user asked for.
C9_AudioConfiguration ==
    (pc = "built" /\ (handler = "Audio Only" \/ (handler = "cli" /\ args.audio_format # "")))
        => /\ Has(options, "format") /\ TargetsAudio(options["format"])
           /\ Has(options, "postprocessors")
           /\ Cardinality(AudioTranscoders(options)) = 1
           /\ \A i \in AudioTranscoders(options) :
                 options["postprocessors"][i].preferredcodec =
                    (IF handler = "cli" THEN args.audio_format
                     ELSE CodecOfAudioFormat(audio_format))

\* C10: batch mode downloads its URLs one at a time in input order, goes on
\* after a failed URL, and its summary counts as successful exactly the URLs
\* whose download succeeded.
C10_BatchCountsSuccesses ==
    (handler = "Batch URLs" /\ pc = "rendered" /\ urls # << >>)
        => /\ Len(calls) = Len(urls)
           /\ \A i \in 1..Len(calls) : calls[i].url = urls[i]
           /\ successful = Cardinality({i \in 1..Len(calls) : calls[i].kind = "ok"})
           /\ notes[Len(notes)].detail = << successful, Len(urls) >>


\* A download error occurred in the run of the command line
CliDownloadError == \E i \in 1..Len(calls) : calls[i].kind # "ok"
CliExited == handler = "cli" /\ pc = "exited"

\* C11: main returns 2 exactly when no URL is resolved, 1 exactly when a
\* download error occurred (a non-zero return code or a raised error) and 0
\* exactly when every requested download completed without error; it never
\* returns 0 after a download error.
C11_ExitCode ==
    CliExited =>
        /\ (exit_code = 2) <=> (urls = << >>)
        /\ (exit_code = 1) <=> CliDownloadError
        /\ (exit_code = 0) <=> (urls # << >> /\ Len(calls) = Len(urls) /\ ~CliDownloadError)


\* What the front-end reported about the input
ReportsInputError ==
    \E i \in 1..Len(notes) : notes[i].kind \in {"stderr", "error-box", "warning"}

\* The command line half: error printed, 2 returned, no extractor call, the
\* Option Builder has not run and no output directory exists
CliNoUrlHalts ==
    (handler = "cli" /\ pc = "exited" /\ urls = << >>) =>
        /\ ReportsInputError
        /\ exit_code = 2
        /\ calls = << >>
        /\ options = NoOptions
        /\ fs = << >>

\* The batch handler half: error reported, no extractor call
BatchNoUrlHalts ==
    (handler = "Batch URLs" /\ pc = "rendered" /\ urls = << >>) =>
        /\ ReportsInputError
        /\ calls = << >>

\* C12: when no URL is resolved (command line: no positional URL and no
\* batch file or one with only blank and '#' lines; batch handler: only
\* blank lines), the flow reports the input error and halts without invoking
\* the extraction primitive; on the command line the Option Builder has not
\* run, so no output directory has been created.
C12_NoUrlReportedAndHalts == CliNoUrlHalts /\ BatchNoUrlHalts


\* Two consecutive calls of the Option Builder for video, without a custom
\* format, at the same quality tier
SameTierCalls ==
    /\ pc = "rebuilt"
    /\ args.quality = previous.args.quality
    /\ args.quality # "Custom Format"

\* C13: for a fixed quality tier, no custom format and audio_only false, two
\* calls of create_download_options return the same format selector, whatever
\* user agent random.choice picked and whatever the other arguments were.
C13_FormatIndependentOfAgent ==
    SameTierCalls => options["format"] = previous.options["format"]

C13_Witness ==
    /\ SameTierCalls
    /\ args.quality = "720p"
    /\ options["user_agent"] # previous.options["user_agent"]
    /\ Has(options, "subtitleslangs") # Has(previous.options, "subtitleslangs")
    /\ options["format"] = FormatCapped("720")


\* The configuration minus its output template (the scratch path)
SansOuttmpl(opts) == [k \in DOMAIN opts \ {"outtmpl"} |-> opts[k]]

\* The extractor calls of strategy k in the running request
CallsOf(k) == {i \in 1..Len(calls) : calls[i].strategy = k}

\* The format selector strategy 2 substitutes for a primary selector
SubstituteFor(format) ==
    IF \E i \in 1..Len(format) : format[i] = "+"
    THEN << "best[height<=720]" >>
    ELSE << "best" >>

\* C14: the configuration of step 2 is the primary configuration with its
\* format selector replaced by 'best[height<=720]' when the primary selector
\* contains '+' and by 'best' when it does not, every other field carried
\* over unchanged; so it differs from the configuration of step 1 whenever
\* the primary selector is not the substituted one.
C14_Step2Configuration ==
    LadderRequest =>
        \A i \in CallsOf(2) :
            LET c == calls[i].options
            IN  /\ DOMAIN c = DOMAIN options
                /\ c["format"] = SubstituteFor(options["format"])
                /\ \A k \in DOMAIN c \ {"format", "outtmpl"} : c[k] = options[k]
                /\ \A j \in CallsOf(1) :
                      options["format"] # SubstituteFor(options["format"])
                          => SansOuttmpl(c) # SansOuttmpl(calls[j].options)

C14_Witness ==
    /\ LadderRequest
    /\ CallsOf(1) # {}
    /\ \E i \in CallsOf(2) :
          /\ calls[i].options["format"] = << "best[height<=720]" >>
          /\ Has(calls[i].options, "postprocessors")
          /\ Has(calls[i].options, "subtitleslangs")


\* The fixed parts of the configurations of steps 3 and 4
MobileConfiguration ==
    [ format |-> << "best[height<=480]", "/", "best" >>, user_agent |-> "iPhone",
      referer |-> "https://m.youtube.com/", retries |-> 3, sleep_interval |-> 5 ]
AudioFallbackConfiguration ==
    [ format |-> << "bestaudio", "/", "best" >>, user_agent |-> "Googlebot",
      sleep_interval |-> 3 ]

\* C15: the configurations handed to the extractor by steps 3 and 4 do not
\* depend on the primary configuration: up to the scratch path they are the
\* same for every primary configuration, and no subtitle, postprocessor or
\* format field of the primary configuration appears in them.
C15_Steps3And4Independent ==
    LadderRequest =>
        /\ \A i \in CallsOf(3) :
              /\ SansOuttmpl(calls[i].options) = MobileConfiguration
              /\ calls[i].options["outtmpl"].dir \in TempNames
        /\ \A i \in CallsOf(4) :
              /\ SansOuttmpl(calls[i].options) = AudioFallbackConfiguration
              /\ calls[i].options["outtmpl"].dir \in TempNames

C15_Witness ==
    /\ LadderRequest
    /\ CallsOf(3) # {}
    /\ CallsOf(4) # {}
    /\ Has(options, "postprocessors")
    /\ Has(options, "subtitleslangs")
    /\ options["format"] = FormatCapped("1080")


\* Height limits of the format tokens that carry one; 0 for audio tokens
HeightLimit ==
    ("bestvideo[height<=2160]" :> 2160) @@ ("bestvideo[height<=1440]" :> 1440)
    @@ ("bestvideo[height<=1080]" :> 1080) @@ ("bestvideo[height<=720]" :> 720)
    @@ ("bestvideo[height<=480]" :> 480) @@ ("best[height<=720]" :> 720)
    @@ ("best[height<=480]" :> 480) @@ ("bestaudio[ext=m4a]" :> 0) @@ ("bestaudio" :> 0)

\* The resolution cap of a selector is that of its first preference
Capped(format) == format # << >> /\ Head(format) \in DOMAIN HeightLimit
CapNotIncreased(before, after) ==
    Capped(before) => (Capped(after) /\ HeightLimit[Head(after)] <= HeightLimit[Head(before)])

\* The sleep intervals alone
SleepIntervalsMonotone ==
    LadderRequest =>
        \A i \in 1..(Len(calls) - 1) :
            calls[i + 1].options["sleep_interval"] >= calls[i].options["sleep_interval"]

\* The resolution caps alone
CapsMonotone ==
    LadderRequest =>
        \A i \in 1..(Len(calls) - 1) :
            CapNotIncreased(calls[i].options["format"], calls[i + 1].options["format"])

\* C16: for a primary configuration of the Option Builder, the sleep interval
\* of step k+1 is at least that of step k for k in 1..3, and the resolution
\* cap never increases from step k to step k+1.
C16_MonotoneDegradation == SleepIntervalsMonotone /\ CapsMonotone


IsWarning(n) == n.kind = "warning"
WarningNotes == SelectSeq(notes, IsWarning)

\* What step k hands to the extractor, the scratch path apart, as a function
\* of the primary configuration alone
StepConfiguration(k) ==
    CASE k = 1 -> SansOuttmpl(options)
      [] k = 2 -> [SansOuttmpl(options) EXCEPT !["format"] = SubstituteFor(@)]
      [] k = 3 -> MobileConfiguration
      [] k = 4 -> AudioFallbackConfiguration

\* C17: the steps invoked in a request are a prefix of (1, 2, 3, 4), in that
\* order and each at most once; step k+1 is invoked only after step k has
\* failed; which step runs and with which configuration depends only on the
\* number of failures so far, not on the kind or content of the errors.
C17_LadderOrder ==
    LadderRequest =>
        /\ Len(calls) <= 4
        /\ \A i \in 1..Len(calls) :
              /\ calls[i].strategy = i
              /\ SansOuttmpl(calls[i].options) = StepConfiguration(i)
              /\ Len(WarningNotes) >= i - 1
        /\ \A k \in 1..Len(WarningNotes) :
              /\ WarningNotes[k].label = WarningLabel(k)
              /\ k <= Len(calls)

C17_Witness ==
    /\ LadderRequest
    /\ Len(calls) = 4
    /\ calls[1].msg = LongMsg
    /\ calls[2].msg = ShortMsg
    /\ calls[3].raised = FALSE
    /\ calls[3].kind = "ok"
    /\ Len(WarningNotes) = 3


IsPrefix(a, b) == Len(a) <= Len(b) /\ a = SubSeq(b, 1, Len(a))

\* A bounded prefix of the message of the error that step k raised
BoundedPrefix(text, k) ==
    /\ Len(text) <= DisplayLimit
    /\ (k <= Len(calls) /\ calls[k].raised) => IsPrefix(text, calls[k].msg)

\* The error text carried by the Failure outcome, after its fixed heading
FailureText == Tail(result.error)

\* The texts of the warnings of steps 1..3
WarningsBounded ==
    LadderRequest => \A k \in 1..Len(WarningNotes) : BoundedPrefix(WarningNotes[k].detail, k)

\* The text of the Failure outcome
FailureBounded ==
    (LadderRequest /\ result.set /\ ~result.success) => BoundedPrefix(FailureText, 4)

\* C18: for every step that raises, the error text recorded for display is a
\* prefix of the error's message of length at most 100; this holds for all
\* four steps, including the message carried by the final Failure outcome
\* when step 4 fails.
C18_DisplayedErrorBounded == WarningsBounded /\ FailureBounded


\* C19: the ladder does not modify the primary configuration it was given:
\* whatever steps have run, every field of the caller's options still has
\* the value step 1 was handed, and its output template is still the
\* configured one (the substitutions were applied to copies).
C19_PrimaryUnmodified ==
    (LadderRequest /\ calls # << >>) =>
        /\ SansOuttmpl(options) = SansOuttmpl(calls[1].options)
        /\ options["outtmpl"] = PathJoin(get_output_directory, OutputTemplate)

C19_Witness ==
    /\ LadderRequest
    /\ Len(calls) = 4
    /\ result.set
    /\ Contains(options["format"], "+")
    /\ calls[2].options["format"] # options["format"]
    /\ calls[4].options["outtmpl"] # options["outtmpl"]


\* A handler finishes a request that named at least one URL
RequestCompletes ==
    /\ pc # "rendered"
    /\ pc' = "rendered"
    /\ ~(handler' = "Batch URLs" /\ urls' = << >>)

\* C20: the session history holds one entry (URL, mode, file names) for each
\* request made since the last clear, in the order of the requests: every
\* request (single, audio-only, playlist, batch) appends its entry, nothing
\* else changes the history, and a clear leaves it empty.
C20_HistoryLogsEveryRequest ==
    [][ /\ RequestCompletes =>
              /\ Len(download_history') = Len(download_history) + 1
              /\ SubSeq(download_history', 1, Len(download_history)) = download_history
              /\ download_history'[Len(download_history')].type = handler'
        /\ (~RequestCompletes /\ download_history' # download_history) =>
              download_history' = << >>
      ]_vars

\* The part about clearing and about entries never being altered
HistoryOnlyGrowsOrClears ==
    [][ download_history' # download_history =>
            \/ download_history' = << >>
            \/ /\ Len(download_history') = Len(download_history) + 1
               /\ SubSeq(download_history', 1, Len(download_history)) = download_history
      ]_vars


\* download_video_to_memory is running
InLadder == LadderRequest /\ pc \in {"begin", "mkdtemp", "extract", "scan", "cleanup",
                                      "return", "except"}

\* The triple is (True, files, None)
SuccessTriple == result.success /\ result.error = None

\* The triple is (False, [], message), the message starting with the heading
FailureTriple ==
    /\ ~result.success
    /\ result.files = << >>
    /\ result.error # << >>
    /\ Head(result.error) = "All download strategies failed. Last error: "

\* Every error raised inside a strategy is pending at an except clause of the
\* ladder, and the ladder can always take its next step
ErrorsHandled ==
    InLadder => /\ ENABLED NextLadder
                /\ strategy \in 1..4
                /\ (pending.kind = "exc") => pc \in {"cleanup", "except"}

\* What the ladder returns
ReturnsTriple == (LadderRequest /\ result.set) => (SuccessTriple \/ FailureTriple)

\* C21: download_video_to_memory never propagates an error of the extractor
\* or of the file enumeration: whatever the URL, the primary configuration
\* and the failures of the steps, it terminates, and what it returns is
\* either (True, files, None) or (False, [], message) with a non-empty
\* message that begins with 'All download strategies failed'.
C21_AlwaysReturnsTriple ==
    /\ [](ErrorsHandled /\ ReturnsTriple)
    /\ InLadder ~> (LadderRequest /\ result.set)

\* All four steps failed, the first by an error of the extractor and the
\* last by an error of the file enumeration
C21_Witness ==
    /\ LadderRequest
    /\ result.set
    /\ FailureTriple
    /\ Len(calls) = 4
    /\ calls[1].raised
    /\ ~calls[4].raised
    /\ Tail(result.error) = OSErrorMsg


\* main has collected its URLs
CliCollected == handler = "cli" /\ pc \in {"cli_opts", "cli_download", "exited"}

\* The lines of the batch file, stripped, followed by the positional URLs
RawInputs ==
    LET lines == IF args.batch_file = "" THEN << >> ELSE TextFiles[args.batch_file]
    IN  [i \in 1..(Len(lines) + Len(args.urls)) |->
            IF i <= Len(lines) THEN Strip(lines[i]) ELSE args.urls[i - Len(lines)]]

FileLineCount == IF args.batch_file = "" THEN 0 ELSE Len(TextFiles[args.batch_file])

\* Positions of RawInputs that hold a URL: every positional argument, and the
\* lines of the file that are neither blank nor comments
IsUrlAt(i) == i > FileLineCount \/ (RawInputs[i] # << >> /\ Head(RawInputs[i]) # "#")
UrlPositions == {i \in DOMAIN RawInputs : IsUrlAt(i)}

\* Position of the first occurrence of u among the inputs
FirstOccurrence(u) ==
    CHOOSE i \in UrlPositions :
        /\ RawInputs[i] = u
        /\ \A j \in UrlPositions : RawInputs[j] = u => i <= j

\* C22: collect_urls returns the URLs of the batch file (lines stripped, blank
\* lines and '#' lines skipped) followed by the positional URLs, each URL once
\* at the position of its first occurrence: no duplicates, exactly the set of
\* the input URLs, first-occurrence order, unchanged by a second
\* de-duplication; the extractor is handed each distinct URL once.
C22_CollectUrls ==
    CliCollected =>
        /\ \A i, j \in 1..Len(urls) : urls[i] = urls[j] => i = j
        /\ {urls[i] : i \in 1..Len(urls)} = {RawInputs[i] : i \in UrlPositions}
        /\ \A i, j \in 1..Len(urls) :
              i < j => FirstOccurrence(urls[i]) < FirstOccurrence(urls[j])
        /\ Unique(urls, {}) = urls
        /\ Len(calls) <= Len(urls)
        /\ \A i \in 1..Len(calls) : calls[i].url = urls[i]
        /\ (pc = "exited" /\ urls # << >> /\ ~calls[Len(calls)].raised)
              => Len(calls) = Len(urls)

\* urls.txt (urlA, a comment, ' urlB ', urlA again) with the positional URLs
\* urlB, urlA: two URLs are collected and both are handed to the extractor
C22_Witness ==
    /\ CliCollected
    /\ pc = "exited"
    /\ args.batch_file = "urls.txt"
    /\ args.urls = << UrlB, UrlA >>
    /\ urls = << UrlA, UrlB >>
    /\ Len(calls) = 2

=============================================================================
